---- MODULE Spec2Model ----
(***************************************************************************)
(* Contribution lifecycle of the trusted-setup contributor CLI             *)
(* (phase1-cli/src/bin/phase1.rs: main, contribute, do_contribute and the  *)
(* heartbeat task) and the coordinator's get-task endpoint                 *)
(* (phase1-coordinator/src/rest.rs: get_chunk).                            *)
(*                                                                         *)
(* Every coordinator request of the client is two steps, the request being *)
(* issued and its response arriving, because each `.await` is a suspension *)
(* point at which the heartbeat task and the clock may advance.            *)
(***************************************************************************)
EXTENDS Integers, Sequences, FiniteSets, TLC

\* ---------------------------------------------------------------- bounds
\* number of get-queue-status polls of one run
MaxPolls == 2
\* last instant of the (non-decreasing) wall clock
MaxTime == 2

\* ------------------------------------------------------------- constants
\* value of a timestamp that was never stamped (ContributionInfo::default())
DefaultTime == 0

\* ------------------------------------------------------------ data model
\* ContributorStatus, as matched by the polling loop
Statuses == {"Queue", "Round", "Finished", "Other"}

\* steps of one contribution cycle, in the order of do_contribute
CycleOrder == <<"lock", "task", "challenge", "compute", "upload", "notify", "summary">>

Pubkeys == {"pkA", "pkB"}
RoundHeights == {1}
ChunkIds == {0, 1}
ContributionIds == {1, 2}

\* ContributionLocator / ContributionSignatureLocator
Locator(r, c, i) == [round_height |-> r, chunk_id |-> c, contribution_id |-> i]

\* LockedLocators: what lock_chunk hands to the contributor
MkLocked(r, c, i) ==
    [next_contribution |-> Locator(r, c, i),
     next_contribution_file_signature |-> Locator(r, c, i)]

LockedLocatorsSet ==
    {MkLocked(r, c, i) : r \in RoundHeights, c \in ChunkIds, i \in ContributionIds}

\* the locators the coordinator grants to this contributor in a run
GrantedLocators == {MkLocked(1, 0, 1), MkLocked(1, 1, 2)}

\* no locators held yet
NoLocators == MkLocked(0, 0, 0)

\* Task::new(chunk_id, contribution_id)
Task(c, i) == [chunk_id |-> c, contribution_id |-> i]

Tasks == {Task(c, i) : c \in ChunkIds, i \in ContributionIds}

NoTask == Task(0 - 1, 0 - 1)

\* challenge files the coordinator may serve, as byte buffers
Challenges == {<<7>>, <<8>>}

\* the randomness the contributor feeds into the computation; the lifecycle
\* never looks at it, one value stands for all
Randomness == {1}

\* setup_utils::calculate_hash: a collision-free digest of a byte buffer
calculate_hash(bytes) == <<"hash", bytes>>

\* Computation::contribute_masp: the parameters written for a challenge
contribute_masp(chal, r) == <<"params", chal, r>>

\* compute_contribution: the response file holds the challenge hash followed
\* by the parameters, and is read back as the contribution
compute_contribution(chal, chal_hash, r) == <<chal_hash, contribute_masp(chal, r)>>

\* the contributor's KeyPair
keypair == [pubkey |-> "pkA", sigkey |-> "skA"]

\* the public key that belongs to a signing key
PubkeyOf(key) ==
    IF key = "skA" THEN "pkA" ELSE IF key = "skB" THEN "pkB" ELSE "unknown"

\* Production.sign(signing key, message)
Sign(key, msg) == [key |-> key, msg |-> msg]

\* Production.verify(public key, message, signature)
Verify(pk, msg, sig) == sig.msg = msg /\ PubkeyOf(sig.key) = pk

\* ContributionState::new(challenge_hash, response_hash, next_challenge_hash);
\* None is <<>>
ContributionState(chal_hash, resp_hash, next_hash) ==
    [challenge_hash |-> chal_hash, response_hash |-> resp_hash,
     next_challenge_hash |-> next_hash]

\* ContributionState::signature_message: the canonical message of a state
signature_message(state) ==
    <<"message", state.challenge_hash, state.response_hash, state.next_challenge_hash>>

\* ContributionFileSignature::new(signature, state)
ContributionFileSignature(sig, state) == [signature |-> sig, state |-> state]

\* PostChunkRequest::new
PostChunkRequest(cl, c, sl, cfs) ==
    [contribution_locator |-> cl, contribution |-> c,
     contribution_file_signature_locator |-> sl,
     contribution_file_signature |-> cfs]

\* nothing received or sent in the cycle yet; each field holds <<>> or <<value>>
NoWire == [lock |-> <<>>, challenge |-> <<>>, upload |-> <<>>, notify |-> <<>>]

VARIABLES
    pc,               \* position of the lifecycle task (contribute / do_contribute)
    queue_status,     \* status returned by the latest poll
    contrib_info,     \* contribute's ContributionInfo (timestamps)
    cycle_info,       \* do_contribute's clone of it
    locked_locators,  \* do_contribute's locked_locators
    task,             \* do_contribute's task
    hb,               \* state of the spawned heartbeat task
    runtime,          \* the tokio runtime: "running" or "shutdown"
    now,              \* Utc::now()
    polls,            \* number of polls issued
    cycle_reqs,       \* steps of the current cycle that were issued
    cycle_oks,        \* steps of the current cycle that returned success
    lc_requests,      \* number of coordinator requests issued by the lifecycle
    failed_step,      \* the request or local step that failed, "none" if none
    abort_calls,      \* number of heartbeat_handle.abort() calls
    cycles_done,      \* number of post-summary requests that returned success
    posted,           \* ContributionInfo records sent by post-summary
    challenge,        \* do_contribute's challenge bytes
    challenge_hash,   \* do_contribute's challenge_hash
    contribution,     \* do_contribute's contribution bytes
    post_chunk_req,   \* do_contribute's post_chunk_req
    wire,             \* what the current cycle received and sent so far
    held_chunks,      \* chunks locked for this contributor and not yet released
    participants,     \* coordinator: current participant info per public key
    rest_response,    \* coordinator: last response of a REST handler
    storage,          \* coordinator: contributions and file signatures written to disk
    upload,           \* coordinator: where the upload handler stands, and its request
    upload_errs,      \* locators whose upload handler returned an error
    rest_locked,      \* coordinator: chunks locked by a contributor
    rest_alive        \* coordinator: contributors heard of since the last update

vars == <<pc, queue_status, contrib_info, cycle_info, locked_locators, task, hb,
          runtime, now, polls, cycle_reqs, cycle_oks, lc_requests, failed_step,
          abort_calls, cycles_done, posted, challenge, challenge_hash,
          contribution, post_chunk_req, wire, held_chunks, participants,
          rest_response, storage, upload, upload_errs, rest_locked, rest_alive>>

\* the coordinator side, untouched by the client's steps
coordVars == <<storage, upload, upload_errs, rest_locked, rest_alive>>
\* the coordinator, as its REST handlers see it
restVars == <<participants, rest_response, coordVars>>
\* the heartbeat task and the runtime
hbVars == <<hb, runtime, abort_calls>>
\* do_contribute's byte buffers and the upload request built from them
dataVars == <<challenge, challenge_hash, contribution, post_chunk_req>>
\* do_contribute's locals
cycleVars == <<cycle_info, locked_locators, task, dataVars>>
\* record of the traffic of the current cycle and of the locks it holds
ghostVars == <<wire, held_chunks>>

\* states in which the heartbeat task is still scheduled
HbPending == {"ready", "inflight", "sleeping"}

\* Signature::default() of a ContributionInfo that was not signed yet
NoSignature == [key |-> "", msg |-> <<>>]

\* ContributionInfo::default()
DefaultInfo ==
    [public_key           |-> "",
     contribution_hash    |-> <<>>,
     contribution_hash_signature |-> NoSignature,
     contributor_info_signature  |-> NoSignature,
     start_contribution   |-> DefaultTime,
     joined_queue         |-> DefaultTime,
     challenge_locked     |-> DefaultTime,
     challenge_downloaded |-> DefaultTime,
     start_computation    |-> DefaultTime,
     end_computation      |-> DefaultTime,
     end_contribution     |-> DefaultTime,
     ceremony_round       |-> 0]

\* pretty_hash!: the hash as a printable string
pretty_hash(hash) == <<"hex", hash>>

\* serde_json::to_value(contrib_info), ["contributor_info_signature"].take(),
\* to_string(): the record as JSON with that field set to null
serialized_contrib_info(info) ==
    <<"json", [info EXCEPT !.contributor_info_signature = [key |-> "null", msg |-> <<>>]]>>

\* ChunkRequest of the get-task endpoint
ChunkRequest(pk, ll) == [pubkey |-> pk, locked_locators |-> ll]

\* no REST response produced yet
NoResponse ==
    [kind |-> "None", pubkey |-> "", task |-> NoTask,
     request |-> ChunkRequest("", NoLocators)]

\* Option<ParticipantInfo> of every public key: <<>> is None, <<pending>> is
\* Some(info) with info.pending_tasks() = pending
ParticipantInfos == {<<>>} \cup {<<pending>> : pending \in SUBSET Tasks}

\* State when main calls contribute: the heartbeat task has been spawned.
InitClient ==
    /\ pc = "join"
    /\ queue_status = "none"
    /\ now = 1
    /\ contrib_info = [DefaultInfo EXCEPT !.start_contribution = 1,
                                      !.public_key = keypair.pubkey]
    /\ cycle_info = DefaultInfo
    /\ locked_locators = NoLocators
    /\ task = NoTask
    /\ hb = "ready"
    /\ runtime = "running"
    /\ polls = 0
    /\ cycle_reqs = <<>>
    /\ cycle_oks = <<>>
    /\ lc_requests = 0
    /\ failed_step = "none"
    /\ abort_calls = 0
    /\ cycles_done = 0
    /\ posted = <<>>
    /\ challenge = <<>>
    /\ challenge_hash = <<>>
    /\ contribution = <<>>
    /\ post_chunk_req = <<>>
    /\ wire = NoWire
    /\ held_chunks = {}

\* the locators an upload can name
UploadLocators == {ll.next_contribution : ll \in GrantedLocators}

\* the upload handler serves no request
NoUpload == [at |-> "idle", request |-> <<>>]

\* a coordinator that has stored nothing and locked nothing
InitCoord ==
    /\ storage = [contributions |-> [l \in UploadLocators |-> <<>>],
                  signatures    |-> [l \in UploadLocators |-> <<>>]]
    /\ upload = NoUpload
    /\ upload_errs = {}
    /\ rest_locked = {}
    /\ rest_alive = {}

Init ==
    /\ InitClient
    /\ participants = [p \in Pubkeys |-> <<>>]
    /\ rest_response = NoResponse
    /\ InitCoord

\* ------------------------------------------------------------ the clock
\* Time passes. The clock is read by the lifecycle only, so its progress is
\* followed for as long as the lifecycle task runs.
Tick ==
    /\ runtime = "running"
    /\ pc \notin {"Done", "panicked"}
    /\ now < MaxTime
    /\ now' = now + 1
    /\ UNCHANGED <<pc, queue_status, contrib_info, cycle_info, locked_locators,
                   task, dataVars, hb, runtime, polls, cycle_reqs, cycle_oks, lc_requests,
                   failed_step, abort_calls, cycles_done, posted, restVars, ghostVars>>

\* ------------------------------------------------------ lifecycle helpers
\* the lifecycle task runs only while the runtime does
Running(at) == runtime = "running" /\ pc = at

\* `.expect(..)` / `?` on an Err: the lifecycle task panics at this step
Panic(step) ==
    /\ pc' = "panicked"
    /\ failed_step' = step

\* a coordinator request of the lifecycle goes out
Issue(next) ==
    /\ pc' = next
    /\ lc_requests' = lc_requests + 1

\* JoinHandle::abort: cancels a scheduled task, no effect on a finished one
Abort(h) == IF h \in HbPending THEN "aborted" ELSE h


\* --------------------------------------------------- contribute: the queue
\* post_join_queue goes out
JoinQueue ==
    /\ Running("join")
    /\ Issue("join_wait")
    /\ UNCHANGED <<queue_status, contrib_info, cycleVars, hbVars, now, polls,
                   cycle_reqs, cycle_oks, failed_step, cycles_done, posted, restVars, ghostVars>>

\* a lifecycle that goes on to poll although the queue was not joined
JoinQueueReturn_IgnoreErr(ok) ==
    /\ Running("join_wait")
    /\ IF ok
         THEN /\ contrib_info' = [contrib_info EXCEPT !.joined_queue = now]
              /\ pc' = "poll"
              /\ UNCHANGED failed_step
         ELSE /\ pc' = "poll"
              /\ failed_step' = "join"
              /\ UNCHANGED contrib_info
    /\ UNCHANGED <<queue_status, cycleVars, hbVars, now, polls, cycle_reqs,
                   cycle_oks, lc_requests, cycles_done, posted, restVars, ghostVars>>

\* its response: .expect("Couldn't join the queue"), then joined_queue is stamped
JoinQueueReturn(ok) ==
    /\ Running("join_wait")
    /\ IF ok
         THEN /\ contrib_info' = [contrib_info EXCEPT !.joined_queue = now]
              /\ pc' = "poll"
              /\ UNCHANGED failed_step
         ELSE /\ Panic("join")
              /\ UNCHANGED contrib_info
    /\ UNCHANGED <<queue_status, cycleVars, hbVars, now, polls, cycle_reqs,
                   cycle_oks, lc_requests, cycles_done, posted, restVars, ghostVars>>

\* get_contributor_queue_status goes out
Poll ==
    /\ Running("poll")
    /\ polls < MaxPolls
    /\ polls' = polls + 1
    /\ Issue("poll_wait")
    /\ UNCHANGED <<queue_status, contrib_info, cycleVars, hbVars, now,
                   cycle_reqs, cycle_oks, failed_step, cycles_done, posted, restVars, ghostVars>>

\* the poll fails: .expect("Couldn't get the status of contributor")
PollErr ==
    /\ Running("poll_wait")
    /\ Panic("poll")
    /\ UNCHANGED <<queue_status, contrib_info, cycleVars, hbVars, now, polls,
                   cycle_reqs, cycle_oks, lc_requests, cycles_done, posted, restVars, ghostVars>>

\* ContributorStatus::Queue(position, size): print, then sleep
PollQueue ==
    /\ Running("poll_wait")
    /\ queue_status' = "Queue"
    /\ pc' = "sleep"
    /\ UNCHANGED <<contrib_info, cycleVars, hbVars, now, polls, cycle_reqs,
                   cycle_oks, lc_requests, failed_step, cycles_done, posted, restVars, ghostVars>>

\* a loop that takes Other for the end of the ceremony
PollOther_Ends ==
    /\ Running("poll_wait")
    /\ queue_status' = "Other"
    /\ pc' = "Done"
    /\ UNCHANGED <<contrib_info, cycleVars, hbVars, now, polls, cycle_reqs,
                   cycle_oks, lc_requests, failed_step, cycles_done, posted, restVars, ghostVars>>

\* a loop that takes Other for the end of the round and cancels the heartbeat
PollOther_CancelsHeartbeat ==
    /\ Running("poll_wait")
    /\ queue_status' = "Other"
    /\ hb' = Abort(hb)
    /\ abort_calls' = abort_calls + 1
    /\ pc' = "sleep"
    /\ UNCHANGED <<contrib_info, cycleVars, runtime, now, polls, cycle_reqs,
                   cycle_oks, lc_requests, failed_step, cycles_done, posted, restVars, ghostVars>>

\* ContributorStatus::Other: print, then sleep
PollOther ==
    /\ Running("poll_wait")
    /\ queue_status' = "Other"
    /\ pc' = "sleep"
    /\ UNCHANGED <<contrib_info, cycleVars, hbVars, now, polls, cycle_reqs,
                   cycle_oks, lc_requests, failed_step, cycles_done, posted, restVars, ghostVars>>

\* a loop that cancels the heartbeat when the round starts
PollRound_AbortFirst ==
    /\ Running("poll_wait")
    /\ queue_status' = "Round"
    /\ hb' = Abort(hb)
    /\ abort_calls' = abort_calls + 1
    /\ cycle_info' = contrib_info
    /\ cycle_reqs' = <<>>
    /\ cycle_oks' = <<>>
    /\ wire' = NoWire
    /\ pc' = "lock"
    /\ UNCHANGED <<contrib_info, locked_locators, task, dataVars, runtime, now,
                   polls, lc_requests, failed_step, cycles_done, posted, restVars,
                   held_chunks>>

\* ContributorStatus::Round: do_contribute is entered with a clone of contrib_info
PollRound ==
    /\ Running("poll_wait")
    /\ queue_status' = "Round"
    /\ cycle_info' = contrib_info
    /\ cycle_reqs' = <<>>
    /\ cycle_oks' = <<>>
    /\ wire' = NoWire
    /\ pc' = "lock"
    /\ UNCHANGED <<contrib_info, locked_locators, task, dataVars, hbVars, now,
                   polls, lc_requests, failed_step, cycles_done, posted, restVars,
                   held_chunks>>

\* a loop that goes on polling after the ceremony is reported finished
PollFinished_KeepsPolling ==
    /\ Running("poll_wait")
    /\ queue_status' = "Finished"
    /\ pc' = "sleep"
    /\ UNCHANGED <<contrib_info, cycleVars, hbVars, now, polls, cycle_reqs,
                   cycle_oks, lc_requests, failed_step, cycles_done, posted, restVars, ghostVars>>

\* ContributorStatus::Finished: break
PollFinished ==
    /\ Running("poll_wait")
    /\ queue_status' = "Finished"
    /\ pc' = "Done"
    /\ UNCHANGED <<contrib_info, cycleVars, hbVars, now, polls, cycle_reqs,
                   cycle_oks, lc_requests, failed_step, cycles_done, posted, restVars, ghostVars>>

\* time::sleep(UPDATE_TIME) at the end of a loop iteration is over
Sleep ==
    /\ Running("sleep")
    /\ pc' = "poll"
    /\ UNCHANGED <<queue_status, contrib_info, cycleVars, hbVars, now, polls,
                   cycle_reqs, cycle_oks, lc_requests, failed_step, cycles_done,
                   posted, restVars, ghostVars>>


\* ------------------------------------------------ do_contribute: one cycle
\* a step of the cycle goes out (or, for the computation, is dispatched)
StepIssued(step) == cycle_reqs' = Append(cycle_reqs, step)

\* a step of the cycle returned Ok
StepOk(step, next) ==
    /\ cycle_oks' = Append(cycle_oks, step)
    /\ pc' = next
    /\ UNCHANGED failed_step

\* a step of the cycle returned Err: `?` leaves do_contribute, whose result
\* meets .expect("Contribution failed")
StepErr(step) ==
    /\ Panic(step)
    /\ UNCHANGED cycle_oks

\* post_lock_chunk goes out
LockChunk ==
    /\ Running("lock")
    /\ StepIssued("lock")
    /\ Issue("lock_wait")
    /\ UNCHANGED <<queue_status, contrib_info, cycleVars, hbVars, now, polls,
                   cycle_oks, failed_step, cycles_done, posted, restVars, ghostVars>>

\* a mis-ordered cycle: the task descriptor is not fetched
LockChunkReturn_SkipTask(ok, ll) ==
    /\ Running("lock_wait")
    /\ IF ok
         THEN /\ locked_locators' = ll
              /\ cycle_info' = [cycle_info EXCEPT
                                  !.challenge_locked = now,
                                  !.ceremony_round = ll.next_contribution.round_height]
              /\ wire' = [wire EXCEPT !.lock = <<ll>>]
              /\ held_chunks' = held_chunks \cup {ll.next_contribution.chunk_id}
              /\ StepOk("lock", "challenge")
         ELSE /\ StepErr("lock")
              /\ UNCHANGED <<locked_locators, cycle_info, ghostVars>>
    /\ UNCHANGED <<queue_status, contrib_info, task, dataVars, hbVars, now, polls,
                   cycle_reqs, lc_requests, cycles_done, posted, restVars>>

\* the lock response: locators kept, challenge_locked stamped, round recorded
LockChunkReturn(ok, ll) ==
    /\ Running("lock_wait")
    /\ IF ok
         THEN /\ locked_locators' = ll
              /\ cycle_info' = [cycle_info EXCEPT
                                  !.challenge_locked = now,
                                  !.ceremony_round = ll.next_contribution.round_height]
              /\ wire' = [wire EXCEPT !.lock = <<ll>>]
              /\ held_chunks' = held_chunks \cup {ll.next_contribution.chunk_id}
              /\ StepOk("lock", "task")
         ELSE /\ StepErr("lock")
              /\ UNCHANGED <<locked_locators, cycle_info, ghostVars>>
    /\ UNCHANGED <<queue_status, contrib_info, task, dataVars, hbVars, now, polls,
                   cycle_reqs, lc_requests, cycles_done, posted, restVars>>

\* requests::get_chunk goes out, carrying locked_locators
GetChunk ==
    /\ Running("task")
    /\ StepIssued("task")
    /\ Issue("task_wait")
    /\ UNCHANGED <<queue_status, contrib_info, cycleVars, hbVars, now, polls,
                   cycle_oks, failed_step, cycles_done, posted, restVars, ghostVars>>

\* its response: the Task of the locators' next contribution
GetChunkReturn(ok) ==
    /\ Running("task_wait")
    /\ IF ok
         THEN /\ task' = Task(locked_locators.next_contribution.chunk_id,
                              locked_locators.next_contribution.contribution_id)
              /\ StepOk("task", "challenge")
         ELSE /\ StepErr("task")
              /\ UNCHANGED task
    /\ UNCHANGED <<queue_status, contrib_info, cycle_info, locked_locators, dataVars,
                   hbVars, now, polls, cycle_reqs, lc_requests, cycles_done, posted,
                   restVars, ghostVars>>

\* requests::get_challenge goes out
GetChallenge ==
    /\ Running("challenge")
    /\ StepIssued("challenge")
    /\ Issue("challenge_wait")
    /\ UNCHANGED <<queue_status, contrib_info, cycleVars, hbVars, now, polls,
                   cycle_oks, failed_step, cycles_done, posted, restVars, ghostVars>>

\* its response: the challenge bytes, challenge_downloaded stamped
GetChallengeReturn(ok, c) ==
    /\ Running("challenge_wait")
    /\ IF ok
         THEN /\ challenge' = c
              /\ cycle_info' = [cycle_info EXCEPT !.challenge_downloaded = now]
              /\ wire' = [wire EXCEPT !.challenge = <<c>>]
              /\ StepOk("challenge", "save_challenge")
         ELSE /\ StepErr("challenge")
              /\ UNCHANGED <<challenge, cycle_info, wire>>
    /\ UNCHANGED <<queue_status, contrib_info, locked_locators, task, challenge_hash,
                   contribution, post_chunk_req, hbVars, now, polls, cycle_reqs,
                   lc_requests, cycles_done, posted, restVars, held_chunks>>

\* the challenge is written to a local file and hashed
SaveChallenge(ok) ==
    /\ Running("save_challenge")
    /\ IF ok
         THEN /\ challenge_hash' = calculate_hash(challenge)
              /\ pc' = "compute"
              /\ UNCHANGED failed_step
         ELSE /\ Panic("save_challenge")
              /\ UNCHANGED challenge_hash
    /\ UNCHANGED <<queue_status, contrib_info, cycle_info, locked_locators, task,
                   challenge, contribution, post_chunk_req, hbVars, now, polls,
                   cycle_reqs, cycle_oks, lc_requests, cycles_done, posted, restVars,
                   ghostVars>>

\* start_computation stamped, compute_contribution dispatched by spawn_blocking
StartComputation ==
    /\ Running("compute")
    /\ cycle_info' = [cycle_info EXCEPT !.start_computation = now]
    /\ StepIssued("compute")
    /\ pc' = "compute_wait"
    /\ UNCHANGED <<queue_status, contrib_info, locked_locators, task, dataVars,
                   hbVars, now, polls, cycle_oks, lc_requests, failed_step,
                   cycles_done, posted, restVars, ghostVars>>

\* a cycle whose error path cancels the heartbeat before giving up
ComputationReturn_AbortOnErr(ok, r) ==
    /\ Running("compute_wait")
    /\ IF ok
         THEN /\ contribution' = compute_contribution(challenge, challenge_hash, r)
              /\ cycle_info' = [cycle_info EXCEPT !.end_computation = now]
              /\ StepOk("compute", "hash_sign")
              /\ UNCHANGED <<hb, abort_calls>>
         ELSE /\ StepErr("compute")
              /\ hb' = Abort(hb)
              /\ abort_calls' = abort_calls + 1
              /\ UNCHANGED <<contribution, cycle_info>>
    /\ UNCHANGED <<queue_status, contrib_info, locked_locators, task, challenge,
                   challenge_hash, post_chunk_req, runtime, now, polls, cycle_reqs,
                   lc_requests, cycles_done, posted, restVars, ghostVars>>

\* the worker returns the contribution: end_computation stamped
ComputationReturn(ok, r) ==
    /\ Running("compute_wait")
    /\ IF ok
         THEN /\ contribution' = compute_contribution(challenge, challenge_hash, r)
              /\ cycle_info' = [cycle_info EXCEPT !.end_computation = now]
              /\ StepOk("compute", "hash_sign")
         ELSE /\ StepErr("compute")
              /\ UNCHANGED <<contribution, cycle_info>>
    /\ UNCHANGED <<queue_status, contrib_info, locked_locators, task, challenge,
                   challenge_hash, post_chunk_req, hbVars, now, polls, cycle_reqs,
                   lc_requests, cycles_done, posted, restVars, ghostVars>>

\* a cycle that signs the ContributionState with the public key string
HashAndSign_SignsWithPubkey(ok) ==
    /\ Running("hash_sign")
    /\ IF ok
         THEN /\ LET contribution_hash == calculate_hash(contribution)
                     contribution_hash_str == pretty_hash(contribution_hash)
                     contribution_state ==
                         ContributionState(challenge_hash, contribution_hash, <<>>)
                     signature ==
                         Sign(keypair.pubkey, signature_message(contribution_state))
                     contribution_file_signature ==
                         ContributionFileSignature(signature, contribution_state)
                 IN  /\ cycle_info' =
                           [cycle_info EXCEPT
                              !.contribution_hash = contribution_hash_str,
                              !.contribution_hash_signature =
                                  Sign(cycle_info.public_key, contribution_hash_str)]
                     /\ post_chunk_req' =
                           <<PostChunkRequest(
                                 locked_locators.next_contribution,
                                 contribution,
                                 locked_locators.next_contribution_file_signature,
                                 contribution_file_signature)>>
              /\ pc' = "upload"
              /\ UNCHANGED failed_step
         ELSE /\ Panic("hash_sign")
              /\ UNCHANGED <<cycle_info, post_chunk_req>>
    /\ UNCHANGED <<queue_status, contrib_info, locked_locators, task,
                   challenge, challenge_hash, contribution, hbVars, now, polls,
                   cycle_reqs, cycle_oks, lc_requests, cycles_done, posted, restVars,
                   ghostVars>>

\* contribution hashed, its hash string signed for the record, then the
\* ContributionState signed with the signing key and the PostChunkRequest
\* built from the locked locators
HashAndSign(ok) ==
    /\ Running("hash_sign")
    /\ IF ok
         THEN /\ LET contribution_hash == calculate_hash(contribution)
                     contribution_hash_str == pretty_hash(contribution_hash)
                     contribution_state ==
                         ContributionState(challenge_hash, contribution_hash, <<>>)
                     signature ==
                         Sign(keypair.sigkey, signature_message(contribution_state))
                     contribution_file_signature ==
                         ContributionFileSignature(signature, contribution_state)
                 IN  /\ cycle_info' =
                           [cycle_info EXCEPT
                              !.contribution_hash = contribution_hash_str,
                              !.contribution_hash_signature =
                                  Sign(cycle_info.public_key, contribution_hash_str)]
                     /\ post_chunk_req' =
                           <<PostChunkRequest(
                                 locked_locators.next_contribution,
                                 contribution,
                                 locked_locators.next_contribution_file_signature,
                                 contribution_file_signature)>>
              /\ pc' = "upload"
              /\ UNCHANGED failed_step
         ELSE /\ Panic("hash_sign")
              /\ UNCHANGED <<cycle_info, post_chunk_req>>
    /\ UNCHANGED <<queue_status, contrib_info, locked_locators, task,
                   challenge, challenge_hash, contribution, hbVars, now, polls,
                   cycle_reqs, cycle_oks, lc_requests, cycles_done, posted, restVars,
                   ghostVars>>

\* requests::post_chunk goes out with post_chunk_req
PostChunk ==
    /\ Running("upload")
    /\ StepIssued("upload")
    /\ Issue("upload_wait")
    /\ wire' = [wire EXCEPT !.upload = post_chunk_req]
    /\ UNCHANGED <<queue_status, contrib_info, cycleVars, hbVars, now, polls,
                   cycle_oks, failed_step, cycles_done, posted, restVars,
                   held_chunks>>

\* a cycle that does not report the uploaded contribution
PostChunkReturn_SkipNotify(ok) ==
    /\ Running("upload_wait")
    /\ IF ok THEN StepOk("upload", "sign_info") ELSE StepErr("upload")
    /\ UNCHANGED <<queue_status, contrib_info, cycleVars, hbVars, now, polls,
                   cycle_reqs, lc_requests, cycles_done, posted, restVars, ghostVars>>

\* an upload whose error is not propagated
PostChunkReturn_IgnoreErr(ok) ==
    /\ Running("upload_wait")
    /\ IF ok
         THEN StepOk("upload", "notify")
         ELSE /\ pc' = "notify"
              /\ failed_step' = "upload"
              /\ UNCHANGED cycle_oks
    /\ UNCHANGED <<queue_status, contrib_info, cycleVars, hbVars, now, polls,
                   cycle_reqs, lc_requests, cycles_done, posted, restVars, ghostVars>>

\* its response
PostChunkReturn(ok) ==
    /\ Running("upload_wait")
    /\ IF ok THEN StepOk("upload", "notify") ELSE StepErr("upload")
    /\ UNCHANGED <<queue_status, contrib_info, cycleVars, hbVars, now, polls,
                   cycle_reqs, lc_requests, cycles_done, posted, restVars, ghostVars>>

\* a notify that names the contribution id where the chunk id belongs
PostContributeChunk_SendsContributionId ==
    /\ Running("notify")
    /\ StepIssued("notify")
    /\ Issue("notify_wait")
    /\ wire' = [wire EXCEPT !.notify = <<task.contribution_id>>]
    /\ UNCHANGED <<queue_status, contrib_info, cycleVars, hbVars, now, polls,
                   cycle_oks, failed_step, cycles_done, posted, restVars,
                   held_chunks>>

\* requests::post_contribute_chunk goes out, carrying task.chunk_id()
PostContributeChunk ==
    /\ Running("notify")
    /\ StepIssued("notify")
    /\ Issue("notify_wait")
    /\ wire' = [wire EXCEPT !.notify = <<task.chunk_id>>]
    /\ UNCHANGED <<queue_status, contrib_info, cycleVars, hbVars, now, polls,
                   cycle_oks, failed_step, cycles_done, posted, restVars,
                   held_chunks>>

\* a notify response after which end_contribution is left unstamped
PostContributeChunkReturn_NoStamp(ok) ==
    /\ Running("notify_wait")
    /\ IF ok
         THEN /\ UNCHANGED cycle_info
              /\ held_chunks' = held_chunks \ {wire.notify[1]}
              /\ StepOk("notify", "sign_info")
         ELSE /\ StepErr("notify")
              /\ UNCHANGED <<cycle_info, held_chunks>>
    /\ UNCHANGED <<queue_status, contrib_info, locked_locators, task, dataVars,
                   hbVars, now, polls, cycle_reqs, lc_requests, cycles_done, posted,
                   restVars, wire>>

\* its response: the chunk is released, end_contribution stamped
PostContributeChunkReturn(ok) ==
    /\ Running("notify_wait")
    /\ IF ok
         THEN /\ cycle_info' = [cycle_info EXCEPT !.end_contribution = now]
              /\ held_chunks' = held_chunks \ {wire.notify[1]}
              /\ StepOk("notify", "sign_info")
         ELSE /\ StepErr("notify")
              /\ UNCHANGED <<cycle_info, held_chunks>>
    /\ UNCHANGED <<queue_status, contrib_info, locked_locators, task, dataVars,
                   hbVars, now, polls, cycle_reqs, lc_requests, cycles_done, posted,
                   restVars, wire>>

\* the record is serialized without its own signature, signed, and written
\* to the summary file
SignInfo(ok) ==
    /\ Running("sign_info")
    /\ IF ok
         THEN /\ cycle_info' =
                    [cycle_info EXCEPT !.contributor_info_signature =
                        Sign(cycle_info.public_key, serialized_contrib_info(cycle_info))]
              /\ pc' = "summary"
              /\ UNCHANGED failed_step
         ELSE /\ Panic("sign_info")
              /\ UNCHANGED cycle_info
    /\ UNCHANGED <<queue_status, contrib_info, locked_locators, task, dataVars,
                   hbVars, now, polls, cycle_reqs, cycle_oks, lc_requests,
                   cycles_done, posted, restVars, ghostVars>>

\* requests::post_contribution_info goes out with the cycle's record
PostContributionInfo ==
    /\ Running("summary")
    /\ StepIssued("summary")
    /\ Issue("summary_wait")
    /\ posted' = Append(posted, cycle_info)
    /\ UNCHANGED <<queue_status, contrib_info, cycleVars, hbVars, now, polls,
                   cycle_oks, failed_step, cycles_done, restVars, ghostVars>>

\* a cycle after which the heartbeat is not cancelled
PostContributionInfoReturn_NoAbort(ok) ==
    /\ Running("summary_wait")
    /\ IF ok
         THEN /\ cycles_done' = cycles_done + 1
              /\ cycle_info' = DefaultInfo
              /\ locked_locators' = NoLocators
              /\ task' = NoTask
              /\ challenge' = <<>>
              /\ challenge_hash' = <<>>
              /\ contribution' = <<>>
              /\ post_chunk_req' = <<>>
              /\ wire' = NoWire
              /\ StepOk("summary", "sleep")
         ELSE /\ StepErr("summary")
              /\ UNCHANGED <<cycles_done, cycleVars, wire>>
    /\ UNCHANGED <<queue_status, contrib_info, hbVars, now, polls,
                   cycle_reqs, lc_requests, posted, restVars, held_chunks>>

\* its response: do_contribute returns Ok, which drops its locals, and
\* contribute calls heartbeat_handle.abort(), then sleeps; on Err the
\* .expect panics
PostContributionInfoReturn(ok) ==
    /\ Running("summary_wait")
    /\ IF ok
         THEN /\ cycles_done' = cycles_done + 1
              /\ cycle_info' = DefaultInfo
              /\ locked_locators' = NoLocators
              /\ task' = NoTask
              /\ challenge' = <<>>
              /\ challenge_hash' = <<>>
              /\ contribution' = <<>>
              /\ post_chunk_req' = <<>>
              /\ wire' = NoWire
              /\ hb' = Abort(hb)
              /\ abort_calls' = abort_calls + 1
              /\ StepOk("summary", "sleep")
         ELSE /\ StepErr("summary")
              /\ UNCHANGED <<cycles_done, cycleVars, wire, hb, abort_calls>>
    /\ UNCHANGED <<queue_status, contrib_info, runtime, now, polls,
                   cycle_reqs, lc_requests, posted, restVars, held_chunks>>


\* ------------------------------------------------------ the heartbeat task
\* a heartbeat that cannot be scheduled while the computation occupies the
\* scheduler
HeartbeatPost_BlockedByCompute ==
    /\ runtime = "running"
    /\ pc # "compute_wait"
    /\ hb = "ready"
    /\ hb' = "inflight"
    /\ UNCHANGED <<pc, queue_status, contrib_info, cycleVars, runtime, now, polls,
                   cycle_reqs, cycle_oks, lc_requests, failed_step, abort_calls,
                   cycles_done, posted, restVars, ghostVars>>

\* post_heartbeat goes out
HeartbeatPost ==
    /\ runtime = "running"
    /\ hb = "ready"
    /\ hb' = "inflight"
    /\ UNCHANGED <<pc, queue_status, contrib_info, cycleVars, runtime, now, polls,
                   cycle_reqs, cycle_oks, lc_requests, failed_step, abort_calls,
                   cycles_done, posted, restVars, ghostVars>>

\* a heartbeat whose failure takes the lifecycle down with it
HeartbeatReturn_Fatal(ok) ==
    /\ runtime = "running"
    /\ hb = "inflight"
    /\ hb' = IF ok THEN "sleeping" ELSE "failed"
    /\ pc' = IF ok THEN pc ELSE "panicked"
    /\ failed_step' = IF ok THEN failed_step ELSE "heartbeat"
    /\ UNCHANGED <<queue_status, contrib_info, cycleVars, runtime, now, polls,
                   cycle_reqs, cycle_oks, lc_requests, abort_calls,
                   cycles_done, posted, restVars, ghostVars>>

\* its response: Ok, the task sleeps; Err, `?` ends the task with that Err,
\* which stays in the JoinHandle nobody awaits
HeartbeatReturn(ok) ==
    /\ runtime = "running"
    /\ hb = "inflight"
    /\ hb' = IF ok THEN "sleeping" ELSE "failed"
    /\ UNCHANGED <<pc, queue_status, contrib_info, cycleVars, runtime, now, polls,
                   cycle_reqs, cycle_oks, lc_requests, failed_step, abort_calls,
                   cycles_done, posted, restVars, ghostVars>>

\* time::sleep(UPDATE_TIME) of the heartbeat loop is over
HeartbeatWake ==
    /\ runtime = "running"
    /\ hb = "sleeping"
    /\ hb' = "ready"
    /\ UNCHANGED <<pc, queue_status, contrib_info, cycleVars, runtime, now, polls,
                   cycle_reqs, cycle_oks, lc_requests, failed_step, abort_calls,
                   cycles_done, posted, restVars, ghostVars>>

\* ----------------------------------------------------------------- main
\* contribute returned or panicked: main ends, the runtime is dropped and
\* every task still scheduled on it is dropped with it
RuntimeShutdown ==
    /\ runtime = "running"
    /\ pc \in {"Done", "panicked"}
    /\ runtime' = "shutdown"
    /\ hb' = IF hb \in HbPending THEN "dropped" ELSE hb
    /\ UNCHANGED <<pc, queue_status, contrib_info, cycleVars, now, polls,
                   cycle_reqs, cycle_oks, lc_requests, failed_step, abort_calls,
                   cycles_done, posted, restVars, ghostVars>>

Next ==
    \/ Tick
    \/ JoinQueue
    \/ \E ok \in BOOLEAN : JoinQueueReturn(ok)
    \/ Poll
    \/ PollErr
    \/ PollQueue
    \/ PollOther
    \/ PollRound
    \/ PollFinished
    \/ Sleep
    \/ LockChunk
    \/ \E ok \in BOOLEAN, ll \in GrantedLocators : LockChunkReturn(ok, ll)
    \/ GetChunk
    \/ \E ok \in BOOLEAN : GetChunkReturn(ok)
    \/ GetChallenge
    \/ \E ok \in BOOLEAN, c \in Challenges : GetChallengeReturn(ok, c)
    \/ \E ok \in BOOLEAN : SaveChallenge(ok)
    \/ StartComputation
    \/ \E ok \in BOOLEAN, r \in Randomness : ComputationReturn(ok, r)
    \/ \E ok \in BOOLEAN : HashAndSign(ok)
    \/ PostChunk
    \/ \E ok \in BOOLEAN : PostChunkReturn(ok)
    \/ PostContributeChunk
    \/ \E ok \in BOOLEAN : PostContributeChunkReturn(ok)
    \/ \E ok \in BOOLEAN : SignInfo(ok)
    \/ PostContributionInfo
    \/ \E ok \in BOOLEAN : PostContributionInfoReturn(ok)
    \/ HeartbeatPost
    \/ \E ok \in BOOLEAN : HeartbeatReturn(ok)
    \/ HeartbeatWake
    \/ RuntimeShutdown

Spec == Init /\ [][Next]_vars

\* ------------------------------------------- coordinator: get-task endpoint
\* an endpoint that hands out the Task without looking at the pending tasks
get_chunk_NoPendingCheck(coordinator, request) ==
    LET next_contribution == request.locked_locators.next_contribution
        t == Task(next_contribution.chunk_id, next_contribution.contribution_id)
        info == coordinator[request.pubkey]
    IN  IF Len(info) = 1
          THEN [kind |-> "Ok", pubkey |-> request.pubkey,
                task |-> t, request |-> request]
          ELSE [kind |-> "UnknownContributor", pubkey |-> request.pubkey,
                task |-> NoTask, request |-> request]

\* get_chunk: the Task of the request's next contribution, checked against
\* the pending tasks of the contributor's current participant info
get_chunk(coordinator, request) ==
    LET next_contribution == request.locked_locators.next_contribution
        t == Task(next_contribution.chunk_id, next_contribution.contribution_id)
        info == coordinator[request.pubkey]
    IN  IF Len(info) = 1
          THEN IF t \notin info[1]
                 THEN [kind |-> "UnknownTask", pubkey |-> request.pubkey,
                       task |-> t, request |-> request]
                 ELSE [kind |-> "Ok", pubkey |-> request.pubkey,
                       task |-> t, request |-> request]
          ELSE [kind |-> "UnknownContributor", pubkey |-> request.pubkey,
                task |-> NoTask, request |-> request]

\* the endpoint serves one request
RestGetChunk(pk, ll) ==
    /\ rest_response' = get_chunk(participants, ChunkRequest(pk, ll))
    /\ UNCHANGED <<pc, queue_status, contrib_info, cycleVars, hbVars, now, polls,
                   cycle_reqs, cycle_oks, lc_requests, failed_step, cycles_done,
                   posted, participants, ghostVars, coordVars>>

\* any coordinator state, no request served yet
InitRest ==
    /\ InitClient
    /\ participants \in [Pubkeys -> ParticipantInfos]
    /\ rest_response = NoResponse
    /\ InitCoord

NextRest == \E pk \in Pubkeys, ll \in LockedLocatorsSet : RestGetChunk(pk, ll)

SpecRest == InitRest /\ [][NextRest]_vars

\* what do_contribute uploads for a challenge
UploadOf(l, chal, r) ==
    LET c == compute_contribution(chal, calculate_hash(chal), r)
        state == ContributionState(calculate_hash(chal), calculate_hash(c), <<>>)
    IN  PostChunkRequest(l, c, l,
            ContributionFileSignature(
                Sign(keypair.sigkey, signature_message(state)), state))

\* the upload requests that reach the coordinator
UploadRequests ==
    {UploadOf(l, chal, r) : l \in UploadLocators, chal \in Challenges, r \in Randomness}

\* the client side does not move while the coordinator's handlers are followed
ClientIdle ==
    UNCHANGED <<pc, queue_status, contrib_info, cycleVars, hbVars, now, polls,
                cycle_reqs, cycle_oks, lc_requests, failed_step, cycles_done,
                posted, ghostVars>>

\* post_contribution_chunk, first half: the write lock is taken for
\* write_contribution and released at the end of the `if let`
PostContributionChunkWrite(request, ok) ==
    /\ upload.at \in {"idle", "ok", "err"}
    /\ IF ok
         THEN /\ storage' = [storage EXCEPT
                    !.contributions[request.contribution_locator] =
                        <<request.contribution>>]
              /\ upload' = [at |-> "written", request |-> <<request>>]
              /\ upload_errs' = upload_errs \ {request.contribution_locator}
         ELSE /\ upload' = [at |-> "err", request |-> <<request>>]
              /\ upload_errs' = upload_errs \cup {request.contribution_locator}
              /\ UNCHANGED storage
    /\ UNCHANGED <<participants, rest_response, rest_locked, rest_alive>>
    /\ ClientIdle

\* post_contribution_chunk, second half: the write lock is taken again for
\* write_contribution_file_signature, whose result the handler returns
PostContributionChunkSign(ok) ==
    /\ upload.at = "written"
    /\ IF ok
         THEN /\ storage' = [storage EXCEPT
                    !.signatures[upload.request[1].contribution_file_signature_locator] =
                        <<upload.request[1].contribution_file_signature>>]
              /\ upload' = [upload EXCEPT !.at = "ok"]
              /\ UNCHANGED upload_errs
         ELSE /\ upload' = [upload EXCEPT !.at = "err"]
              /\ upload_errs' =
                    upload_errs \cup {upload.request[1].contribution_locator}
              /\ UNCHANGED storage
    /\ UNCHANGED <<participants, rest_response, rest_locked, rest_alive>>
    /\ ClientIdle

\* lock_chunk: try_lock under the write lock locks a free chunk
RestLockChunk(c) ==
    /\ c \notin rest_locked
    /\ rest_locked' = rest_locked \cup {c}
    /\ UNCHANGED <<participants, rest_response, storage, upload, upload_errs, rest_alive>>
    /\ ClientIdle

\* contribute_chunk: try_contribute under the write lock unlocks the chunk
RestContributeChunk(c) ==
    /\ c \in rest_locked
    /\ rest_locked' = rest_locked \ {c}
    /\ UNCHANGED <<participants, rest_response, storage, upload, upload_errs, rest_alive>>
    /\ ClientIdle

\* heartbeat: under the write lock the participant is noted as alive
RestHeartbeat(pk) ==
    /\ pk \notin rest_alive
    /\ rest_alive' = rest_alive \cup {pk}
    /\ UNCHANGED <<participants, rest_response, storage, upload, upload_errs, rest_locked>>
    /\ ClientIdle

\* update_coordinator: update() under the write lock starts a new period
RestUpdate ==
    /\ rest_alive # {}
    /\ rest_alive' = {}
    /\ UNCHANGED <<participants, rest_response, storage, upload, upload_errs, rest_locked>>
    /\ ClientIdle

\* the handlers of the coordinator, each acquisition of its lock one step
NextUpload ==
    \/ \E request \in UploadRequests, ok \in BOOLEAN :
          PostContributionChunkWrite(request, ok)
    \/ \E ok \in BOOLEAN : PostContributionChunkSign(ok)
    \/ \E c \in ChunkIds : RestLockChunk(c)
    \/ \E c \in ChunkIds : RestContributeChunk(c)
    \/ \E pk \in Pubkeys : RestHeartbeat(pk)
    \/ RestUpdate
    \/ \E pk \in Pubkeys, ll \in GrantedLocators : RestGetChunk(pk, ll)

SpecUpload == Init /\ [][NextUpload]_vars


\* ================================================================ claims
IsPrefix(s, t) ==
    /\ Len(s) <= Len(t)
    /\ \A i \in 1..Len(s) : s[i] = t[i]

\* the steps of the lifecycle task when every coordinator request succeeds
\* and the coordinator reports Finished from poll number MaxPolls on; the
\* steps on the contributor's own machine (files, computation, signing) may
\* still fail
Lifecycle ==
    \/ JoinQueue
    \/ JoinQueueReturn(TRUE)
    \/ Poll
    \/ (polls < MaxPolls /\ PollQueue)
    \/ (polls < MaxPolls /\ PollOther)
    \/ (polls < MaxPolls /\ PollRound)
    \/ PollFinished
    \/ Sleep
    \/ LockChunk
    \/ \E ll \in GrantedLocators : LockChunkReturn(TRUE, ll)
    \/ GetChunk
    \/ GetChunkReturn(TRUE)
    \/ GetChallenge
    \/ \E c \in Challenges : GetChallengeReturn(TRUE, c)
    \/ \E ok \in BOOLEAN : SaveChallenge(ok)
    \/ StartComputation
    \/ \E ok \in BOOLEAN, r \in Randomness : ComputationReturn(ok, r)
    \/ \E ok \in BOOLEAN : HashAndSign(ok)
    \/ PostChunk
    \/ PostChunkReturn(TRUE)
    \/ PostContributeChunk
    \/ PostContributeChunkReturn(TRUE)
    \/ \E ok \in BOOLEAN : SignInfo(ok)
    \/ PostContributionInfo
    \/ PostContributionInfoReturn(TRUE)

\* that lifecycle, next to the clock, the heartbeat task and main's end
NextServed ==
    \/ Tick
    \/ Lifecycle
    \/ HeartbeatPost
    \/ \E ok \in BOOLEAN : HeartbeatReturn(ok)
    \/ HeartbeatWake
    \/ RuntimeShutdown

\* #[tokio::main] drives contribute with block_on: the lifecycle task is
\* polled whenever it can go on, and its requests are answered
SpecServed == Init /\ [][NextServed]_vars /\ WF_vars(Lifecycle)

\* the steps of a cycle that end in a local `?`, not in a coordinator request
LocalSteps == {"save_challenge", "compute", "hash_sign", "sign_info"}

\* The tokio scheduler polls every ready task, a timer that was set fires and
\* a request that went out is answered: the heartbeat task is scheduled
\* fairly. The lifecycle is left free to stay in any of its waits.
SpecHb ==
    /\ Init
    /\ [][Next]_vars
    /\ WF_vars(HeartbeatPost)
    /\ WF_vars(\E ok \in BOOLEAN : HeartbeatReturn(ok))
    /\ WF_vars(HeartbeatWake)

\* the lifecycle is suspended in the computation of the first cycle
Computing1 == pc = "compute_wait" /\ cycles_done = 0

\* C1: within one cycle the steps lock, task, challenge, compute, upload,
\* notify, summary go out in exactly that order, none skipped or repeated,
\* and each goes out only after every earlier one returned success.
C1_CycleInOrder ==
    /\ IsPrefix(cycle_reqs, CycleOrder)
    /\ IsPrefix(cycle_oks, cycle_reqs)
    /\ Len(cycle_reqs) <= Len(cycle_oks) + 1

\* a cycle ran to its end
C1_Witness == cycle_reqs = CycleOrder /\ cycle_oks = CycleOrder

\* C2: whenever the lifecycle has invoked the heartbeat cancel, a post-summary
\* request of the run has already returned success.
C2_CancelAfterSummary ==
    (abort_calls > 0 \/ hb = "aborted") => (cycles_done > 0 /\ abort_calls <= cycles_done)

\* the heartbeat was cancelled by the first completed cycle
C2_Witness == hb = "aborted" /\ abort_calls = 1 /\ cycles_done = 1

\* C3: the heartbeat cancel is invoked at most once in a run.
C3_CancelInvokedOnce == abort_calls <= 1

\* C4: when the polling loop has exited, no heartbeat task is pending.
C4_NoPendingHeartbeatAtExit == pc = "Done" => hb \notin HbPending

\* C5: the loop ends in Done exactly on a poll that returned Finished; a poll
\* that returned Queue or Other, and a Round whose cycle succeeded, lead to the
\* sleep and from there to nothing but the next poll.
C5_DoneIffFinished ==
    [][/\ (pc' = "Done") <=> (queue_status' = "Finished")
       /\ (pc' = "Done" /\ pc # "Done") => pc = "poll_wait"
       /\ (pc = "poll_wait" /\ pc' \notin {"poll_wait", "panicked"}) =>
             \/ queue_status' = "Finished" /\ pc' = "Done"
             \/ queue_status' \in {"Queue", "Other"} /\ pc' = "sleep"
             \/ queue_status' = "Round" /\ pc' = "lock"
       /\ (pc = "summary_wait" /\ pc' \notin {"summary_wait", "panicked"}) =>
             pc' = "sleep"
       /\ pc = "sleep" => pc' \in {"sleep", "poll"}
       /\ pc = "poll" => pc' \in {"poll", "poll_wait"}]_vars

\* the loop ended on Finished after an earlier poll had returned something else
C5_Witness == pc = "Done" /\ queue_status = "Finished" /\ polls = 2

\* C6: a failed request or local step leaves the lifecycle panicked at that
\* step, and a panicked lifecycle issues no request of any kind any more.
C6_AbortOnFailure ==
    [][/\ failed_step' # "none" => pc' = "panicked"
       /\ pc = "panicked" =>
             /\ pc' = "panicked"
             /\ lc_requests' = lc_requests
             /\ cycle_reqs' = cycle_reqs
             /\ polls' = polls
             /\ posted' = posted]_vars

\* the upload of a cycle failed and main has ended
C6_Witness ==
    /\ pc = "panicked"
    /\ failed_step = "upload"
    /\ cycle_reqs = <<"lock", "task", "challenge", "compute", "upload">>
    /\ runtime = "shutdown"

\* C7: once a heartbeat request has returned an error, the lifecycle issues
\* no further coordinator request and does not reach Done.
C7_HeartbeatFailureFatal ==
    [][hb = "failed" =>
          /\ lc_requests' = lc_requests
          /\ (pc' = "Done" => pc = "Done")]_vars

\* C7 (amended): a failed heartbeat request ends the heartbeat task and
\* nothing else: no heartbeat is sent afterwards, and the lifecycle task and
\* the runtime are left as they were.
C7_HeartbeatFailureLocal ==
    [][/\ hb = "failed" => hb' = "failed"
       /\ (hb # "failed" /\ hb' = "failed") =>
             /\ pc' = pc
             /\ runtime' = runtime
             /\ failed_step' = failed_step]_vars

\* the lifecycle reached Done although the heartbeat had failed before the
\* first cycle could cancel it
C7_Witness == hb = "failed" /\ pc = "Done" /\ failed_step = "none"

\* non-decreasing chain of the timestamps of one record
TimestampsOrdered(ci) ==
    /\ ci.joined_queue <= ci.challenge_locked
    /\ ci.challenge_locked <= ci.challenge_downloaded
    /\ ci.challenge_downloaded <= ci.start_computation
    /\ ci.start_computation <= ci.end_computation
    /\ ci.end_computation <= ci.end_contribution

\* C8: every ContributionInfo posted has joined_queue <= challenge_locked <=
\* challenge_downloaded <= start_computation <= end_computation <=
\* end_contribution, in the first and in every later cycle.
C8_TimestampsOrdered == \A i \in 1..Len(posted) : TimestampsOrdered(posted[i])

\* a second cycle posted a record during which the clock advanced
C8_Witness ==
    /\ Len(posted) = 2
    /\ posted[2].joined_queue < posted[2].end_contribution
    /\ posted[2].joined_queue >= 1

\* C9: at most one post-summary request goes out in a run.
C9_SummaryPostedOnce == Len(posted) <= 1

\* C10: get_chunk answers with the Task (chunk id, contribution id) of the
\* request's next contribution exactly when the contributor has participant
\* info and that Task is pending there, with UnknownTask when the info is
\* there and the Task is not pending, with UnknownContributor when there is
\* no info.
C10_GetChunkContract ==
    rest_response.kind # "None" =>
        LET req  == rest_response.request
            nc   == req.locked_locators.next_contribution
            t    == [chunk_id |-> nc.chunk_id, contribution_id |-> nc.contribution_id]
            info == participants[req.pubkey]
            known == info # <<>>
        IN  /\ rest_response.kind \in {"Ok", "UnknownTask", "UnknownContributor"}
            /\ rest_response.kind = "Ok" <=> (known /\ t \in info[1])
            /\ rest_response.kind = "Ok" => rest_response.task = t
            /\ rest_response.kind = "UnknownTask" <=> (known /\ t \notin info[1])
            /\ rest_response.kind = "UnknownContributor" <=> ~known

\* a known contributor with several pending tasks asked for one of them
C10_Witness ==
    /\ rest_response.kind = "Ok"
    /\ rest_response.task = Task(1, 2)
    /\ Cardinality(participants[rest_response.pubkey][1]) = 2


\* C13: no heartbeat request is in flight while join-queue has not yet gone
\* out or has not yet been answered.
C13_NoHeartbeatBeforeJoin == hb = "inflight" => pc \notin {"join", "join_wait"}

\* positions of the lifecycle inside a cycle, from the lock request to the
\* post-summary response
CyclePcs ==
    {"lock_wait", "task", "task_wait", "challenge", "challenge_wait",
     "save_challenge", "compute", "compute_wait", "hash_sign", "upload",
     "upload_wait", "notify", "notify_wait", "sign_info", "summary",
     "summary_wait"}

\* the contributor waits in the queue
WaitingInQueue == queue_status = "Queue" /\ pc \in {"sleep", "poll", "poll_wait"}

\* C15: once a cycle has succeeded the heartbeat task is no longer scheduled:
\* it is cancelled in the step that ends the cycle, before the next poll, and
\* sends nothing for the rest of the run.
C15_CancelledAfterCycle ==
    cycles_done > 0 => (abort_calls > 0 /\ hb \notin HbPending /\ hb # "inflight")

\* the poll that follows a completed cycle is in flight, the heartbeat cancelled
C15_Witness == cycles_done = 1 /\ pc = "poll_wait" /\ polls = 2 /\ hb = "aborted"

\* C16: while the contributor waits in the queue or is inside a cycle, the
\* heartbeat task is alive unless a heartbeat request has failed.
C16_HeartbeatAliveWhileActive ==
    ((WaitingInQueue \/ pc \in CyclePcs) /\ hb # "failed") => hb \in HbPending

\* C17: the step at which a cycle is given up does not cancel the heartbeat
\* and nothing cancels it afterwards: the cancel has been invoked once per
\* completed cycle and never on the error path, so a heartbeat task that was
\* scheduled when the cycle failed is left scheduled by the lifecycle.
C17_NoCancelOnAbort ==
    [][/\ abort_calls' = cycles_done'
       /\ (pc' = "panicked" /\ pc # "panicked") =>
             (hb' = hb /\ abort_calls' = abort_calls)
       /\ pc = "panicked" =>
             (abort_calls' = abort_calls /\ (hb' = "aborted" => hb = "aborted"))]_vars

\* the first cycle failed between the lock grant and the notify response, and
\* the heartbeat task is still scheduled
C17_Witness ==
    /\ pc = "panicked"
    /\ failed_step \in {"task", "challenge", "save_challenge", "compute",
                        "hash_sign", "upload", "notify"}
    /\ cycles_done = 0
    /\ abort_calls = 0
    /\ hb \in HbPending
    /\ runtime = "running"

\* C18: a poll answered with Queue or Other takes the lifecycle to the sleep
\* and touches nothing else: no request goes out, no record is posted, the
\* ContributionInfo and the heartbeat task stay as they are and no cancel is
\* invoked; after the sleep comes exactly the next poll.
C18_QueueOtherFrame ==
    [][/\ (/\ pc = "poll_wait"
           /\ pc' \notin {"poll_wait", "panicked"}
           /\ queue_status' \in {"Queue", "Other"}) =>
             /\ pc' = "sleep"
             /\ lc_requests' = lc_requests
             /\ cycle_reqs' = cycle_reqs
             /\ posted' = posted
             /\ contrib_info' = contrib_info
             /\ cycleVars' = cycleVars
             /\ hbVars' = hbVars
             /\ cycles_done' = cycles_done
       /\ (pc = "sleep" /\ pc' # pc) =>
             (pc' = "poll" /\ lc_requests' = lc_requests /\ polls' = polls)
       /\ (pc = "poll" /\ pc' # pc) =>
             (pc' = "poll_wait" /\ polls' = polls + 1
                /\ lc_requests' = lc_requests + 1)]_vars

\* the poll after an Other is in flight
C18_Witness == queue_status = "Other" /\ pc = "poll_wait" /\ polls = 2

\* C12: a lock-chunk request is in flight only while no chunk granted earlier
\* in the run is still held, and at most one chunk is ever held: every lock
\* request after the first follows a successful notify for the chunk before
C12_LockOnlyWhenReleased ==
    /\ Cardinality(held_chunks) <= 1
    /\ pc = "lock_wait" => held_chunks = {}
    /\ (pc = "lock_wait" /\ cycles_done > 0) => cycle_reqs = <<"lock">>

\* the second cycle's lock request is in flight, the first chunk released
C12_Witness == pc = "lock_wait" /\ cycles_done = 1 /\ held_chunks = {}

\* C19: the upload of a cycle carries the contribution locator and the
\* signature locator of the LockedLocators granted by that cycle's lock
\* request, and the notify carries the chunk id of those locators' Task
C19_LocatorsOfThisCycle ==
    /\ wire.upload # <<>> =>
          /\ wire.lock # <<>>
          /\ wire.upload[1].contribution_locator = wire.lock[1].next_contribution
          /\ wire.upload[1].contribution_file_signature_locator =
                wire.lock[1].next_contribution_file_signature
    /\ wire.notify # <<>> =>
          /\ wire.lock # <<>>
          /\ wire.notify[1] = wire.lock[1].next_contribution.chunk_id
          /\ task = Task(wire.lock[1].next_contribution.chunk_id,
                         wire.lock[1].next_contribution.contribution_id)

\* the second cycle, granted other locators than chunk 0, has uploaded and
\* notified
C19_Witness ==
    /\ cycles_done = 1
    /\ wire.lock = <<MkLocked(1, 1, 2)>>
    /\ wire.upload # <<>>
    /\ wire.notify = <<1>>

\* the hashes a challenge or a contribution of the model can have
Hashes ==
    {calculate_hash(c) : c \in Challenges} \cup
    {calculate_hash(compute_contribution(c, calculate_hash(c), r)) :
        c \in Challenges, r \in Randomness}

\* C20: the uploaded ContributionFileSignature signs, with the contributor's
\* signing key, the canonical message of ContributionState(hash of the
\* challenge downloaded in the cycle, hash of the uploaded contribution, None);
\* it verifies under the contributor's public key and does not verify for a
\* state in which either hash is another one
C20_FileSignature ==
    wire.upload # <<>> =>
        LET req == wire.upload[1]
            cfs == req.contribution_file_signature
            H1 == calculate_hash(wire.challenge[1])
            H2 == calculate_hash(req.contribution)
            state == ContributionState(H1, H2, <<>>)
        IN  /\ wire.challenge # <<>>
            /\ cfs.state = state
            /\ cfs.signature = Sign(keypair.sigkey, signature_message(state))
            /\ Verify(keypair.pubkey, signature_message(cfs.state), cfs.signature)
            /\ \A h \in Hashes \ {H1} :
                  ~Verify(keypair.pubkey,
                          signature_message(ContributionState(h, H2, <<>>)),
                          cfs.signature)
            /\ \A h \in Hashes \ {H2} :
                  ~Verify(keypair.pubkey,
                          signature_message(ContributionState(H1, h, <<>>)),
                          cfs.signature)

\* the second cycle has uploaded a contribution to challenge <<8>>
C20_Witness ==
    /\ cycles_done = 1
    /\ pc = "upload_wait"
    /\ wire.challenge = <<<<8>>>>
    /\ wire.upload # <<>>

C11_EventuallyDone == <>(pc = "Done")

\* C11, amended: it ends in Done unless a step on the contributor's own
\* machine fails, which panics the lifecycle
C11_DoneUnlessLocalFailure ==
    <>(pc = "Done" \/ (pc = "panicked" /\ failed_step \in LocalSteps))

\* the run ended in Done after a full cycle
C11_Witness == pc = "Done" /\ cycles_done = 1 /\ queue_status = "Finished"

\* C21: join-queue is the first request of the lifecycle and is issued once:
\* it goes out only while no lifecycle request has gone out, the lifecycle
\* never comes back to it, no poll precedes its successful return, and after
\* a failed join-queue it stays the only lifecycle request of the run
C21_JoinOnceFirst ==
    /\ [](pc = "join" => (lc_requests = 0 /\ polls = 0))
    /\ [](pc = "join_wait" => (lc_requests = 1 /\ polls = 0))
    /\ [](failed_step = "join" =>
            (pc = "panicked" /\ lc_requests = 1 /\ polls = 0
               /\ cycle_reqs = <<>> /\ posted = <<>>))
    /\ [][/\ (pc' = "join_wait" /\ pc # "join_wait") => (pc = "join" /\ lc_requests = 0)
          /\ pc # "join" => pc' # "join"
          /\ lc_requests' >= lc_requests]_vars

\* joined once, then polled twice: three lifecycle requests
C21_Witness == pc = "poll_wait" /\ polls = 2 /\ lc_requests = 3 /\ cycles_done = 0

\* C22: in every summary record sent, the contribution-hash signature and the
\* full-record signature are made with the contributor's signing key, the key
\* of the ContributionFileSignature, and verify under the public key
C22_SummarySignedWithSigkey ==
    \A i \in 1..Len(posted) :
        LET info == posted[i]
        IN  /\ info.contribution_hash_signature.key = keypair.sigkey
            /\ Verify(keypair.pubkey, info.contribution_hash,
                      info.contribution_hash_signature)
            /\ info.contributor_info_signature.key = keypair.sigkey
            /\ Verify(keypair.pubkey, serialized_contrib_info(info),
                      info.contributor_info_signature)

\* C23: the upload handler's two writes are one exclusive step: while it
\* stands between them no other handler changes or reads the coordinator, and
\* a contribution on disk has its file signature on disk unless the handler
\* for it returned an error
C23_UploadOneStep ==
    /\ [](\A l \in UploadLocators :
            (storage.contributions[l] # <<>> /\ storage.signatures[l] = <<>>) =>
                l \in upload_errs)
    /\ [][upload.at = "written" => upload'.at \in {"ok", "err"}]_restVars

====
